---- MODULE Spec2Model ----
(***************************************************************************)
(* Model of gowdakiranA/fullstack-docker-app: the GitHub Actions workflow  *)
(* deploy.yml (jobs build-and-push and deploy), the compose topology       *)
(* docker-compose.yml, the reverse proxy nginx/default.conf and the        *)
(* Express backend server.js.                                              *)
(*                                                                         *)
(* Three specifications share the variables:                               *)
(*   Spec          the workflow, one run at a time, against registry/host  *)
(*   SpecRouter    nginx location matching and the backend's routes        *)
(*   SpecTopology  docker compose bring-up order under depends_on          *)
(***************************************************************************)
EXTENDS Integers, Sequences, FiniteSets, TLC

(* ---------------------------------------------------------------- bounds *)

\* workflow runs triggered in one behaviour
MaxRuns == 3

\* length of the enumerated request paths
MaxPathLen == 5

(* --------------------------------------------------------- shared helpers *)

Range(q) == {q[i] : i \in 1..Len(q)}

Pos(q, x) == CHOOSE i \in 1..Len(q) : q[i] = x

(* ------------------------------------------------- compose topology (3) *)

Services == {"nginx", "frontend", "backend", "mongo"}

\* the services whose image the workflow builds (context ./backend, ./frontend)
Built == {"backend", "frontend"}

\* depends_on of docker-compose.yml: nginx waits for frontend and backend,
\* backend and mongo declare no dependency on each other
RepoDependsOn ==
  [s \in Services |-> IF s = "nginx" THEN {"frontend", "backend"} ELSE {}]

\* compose starts a service only once every service it depends_on is started;
\* services with no dependency between them start in no fixed order
Startable_ignoreDependsOn(deps, done, s) == s \notin done

Startable(deps, done, s) == s \notin done /\ deps[s] \subseteq done

(* ------------------------------------------------------- images and tags *)

\* the revisions (github.sha) a run can be triggered on
Revisions == {111, 222}

Latest == <<"latest", 0>>

Sha(r) == <<"sha", r>>

NoTag == <<"none", 0>>

Tags == {Latest} \cup {Sha(r) : r \in Revisions}

NoImage == <<"none", 0, 0>>

\* the image of service s built by run n from revision r; a rebuild of the same
\* revision is a new image (the Dockerfiles run npm ci / npm install afresh)
Img(s, n, r) == <<s, n, r>>

ExternalImage(s) == IF s = "nginx" THEN <<"nginx:alpine", 0, 0>> ELSE <<"mongo:6", 0, 0>>

\* the tags a build-push step pushes: README 5.8 recommends adding sha-<rev>,
\* the workflow pushes latest alone
PushTags_withSha(r) == {Latest, Sha(r)}

\* push: false
PushTags_none(r) == {}

PushTags(r) == {Latest}

\* the manifest as committed: every built image referenced as :latest
AllLatest == [s \in Built |-> Latest]

\* README 5.8, "roll back by pinning compose to a previous tag and redeploy":
\* the manifest with service t pinned to the tag of revision r
Pinned(t, r) == [s \in Built |-> IF s = t THEN Sha(r) ELSE Latest]

\* the image reference of service s in a manifest with pins p
ImageRef(p, s) ==
  IF s \in Built THEN p[s]
  ELSE IF s = "nginx" THEN <<"alpine", 0>> ELSE <<"6", 0>>

NoContainer == [img |-> NoImage, ref |-> NoTag]

NoFiles == [compose |-> [rev |-> 0, pin |-> [s \in Built |-> NoTag]], nginxConf |-> 0]

(* ------------------------------------------------------ workflow steps *)

BuildJob ==
  <<"checkout", "buildx", "login",
    "build_backend", "push_backend", "build_frontend", "push_frontend">>

\* the remote script with compose up written before compose pull
DeployJob_upBeforePull == <<"scp", "cd", "docker_login", "up", "pull", "prune">>

DeployJob == <<"scp", "cd", "docker_login", "pull", "up", "prune">>

Workflow == BuildJob \o DeployJob

\* job deploy without "needs: build-and-push": its steps do not wait for the
\* build and push steps
NextStep_noNeeds(step) ==
  LET w == <<"checkout", "buildx", "login">> \o DeployJob
             \o <<"build_backend", "push_backend", "build_frontend", "push_frontend">>
  IN IF Pos(w, step) = Len(w) THEN "succeeded" ELSE w[Pos(w, step) + 1]

\* steps of a job run in the order written; job deploy needs build-and-push
NextStep(step) ==
  IF Pos(Workflow, step) = Len(Workflow) THEN "succeeded"
  ELSE Workflow[Pos(Workflow, step) + 1]

\* a failed step fails its job, the later steps and the jobs that need it are
\* skipped; in the remote script that is set -e
AfterFailure_continue(step) == NextStep(step)

\* the remote script without set -e: only its last command decides the step
AfterFailure_noSetE(step) ==
  IF step \in {"cd", "docker_login", "pull", "up"} THEN NextStep(step) ELSE "failed"

AfterFailure(step) == "failed"

VARIABLES
  pc,          \* the step the run is at, or "pending" / "succeeded" / "failed"
  run,         \* number of the current run (0: none yet)
  rev,         \* revision the current run was triggered on
  pin,         \* image tags of the manifest in that revision
  log,         \* <<step, outcome>> of the steps of the current run
  registry,    \* Docker Hub: registry[s][tag] is the image tagged so
  hostFiles,   \* /opt/myapp on the host: compose file and nginx/default.conf
  localTags,   \* the host's image store: localTags[s][tag]
  hostImages,  \* built images present on the host
  containers,  \* the container of each service on the host
  upDone,      \* services compose up has handled in the current deploy
  recreations, \* containers recreated by the current deploy
  runStart,    \* registry and host when the current run was triggered
  deployStart, \* host when the current deploy job started
  lastGood,    \* host after the last deploy job that succeeded
  deployed,    \* <<run, rev>> of the runs whose deploy succeeded, in order
  ruleTable,   \* router: location blocks in registration order
  reqPath,     \* router: the last request path
  resp,        \* router: the answer to it
  topo,        \* topology: depends_on of the topology being brought up
  order,       \* topology: services started, in order
  mongo,       \* database container: "created" / "starting" / "up" / "down"
  outages,     \* times the database became unreachable after being up
  beProc,      \* backend container: "created" / "running" / "exited"
  listening,   \* backend: app.listen has bound 0.0.0.0:PORT
  conn,        \* backend: "none" / "connecting" / "connected" / "reconnecting"
  sawDown,     \* backend: the pending connect met an unreachable database
  hasExited,   \* backend: the process has called process.exit at least once
  startedFirst, \* which of backend and mongo compose started first
  health       \* answer to the last direct GET /api/health, and conn at that time

pipelineVars ==
  <<pc, run, rev, pin, log, registry, hostFiles, localTags, hostImages, containers,
    upDone, recreations, runStart, deployStart, lastGood, deployed>>

routerVars == <<ruleTable, reqPath, resp>>

topoVars == <<topo, order>>

procVars ==
  <<mongo, outages, beProc, listening, conn, sawDown, hasExited, startedFirst, health>>

vars == <<pipelineVars, routerVars, topoVars, procVars>>

Host == [files |-> hostFiles, containers |-> containers]

(* ----------------------------------------------- workflow: initial state *)

PipelineInit ==
  /\ pc = "pending"
  /\ run = 0
  /\ rev = 0
  /\ pin = AllLatest
  /\ log = <<>>
  /\ registry = [s \in Built |-> [t \in Tags |-> NoImage]]
  /\ hostFiles = NoFiles
  /\ localTags = [s \in Built |-> [t \in Tags |-> NoImage]]
  /\ hostImages = {}
  /\ containers = [s \in Services |-> NoContainer]
  /\ upDone = {}
  /\ recreations = 0
  /\ runStart = [registry |-> [s \in Built |-> [t \in Tags |-> NoImage]],
                 host |-> [files |-> NoFiles,
                           containers |-> [s \in Services |-> NoContainer]]]
  /\ deployStart = [files |-> NoFiles, containers |-> [s \in Services |-> NoContainer]]
  /\ lastGood = [files |-> NoFiles, containers |-> [s \in Services |-> NoContainer]]
  /\ deployed = <<>>

RouterIdle ==
  /\ ruleTable = <<>>
  /\ reqPath = <<>>
  /\ resp = [status |-> 0, upstream |-> <<"none", 0>>, path |-> <<>>, body |-> "none"]

TopoIdle ==
  /\ topo = RepoDependsOn
  /\ order = <<>>

NoProbe == [body |-> "none", conn |-> "none"]

ProcIdle ==
  /\ mongo = "created"
  /\ outages = 0
  /\ beProc = "created"
  /\ listening = FALSE
  /\ conn = "none"
  /\ sawDown = FALSE
  /\ hasExited = FALSE
  /\ startedFirst = "none"
  /\ health = NoProbe

Init == PipelineInit /\ RouterIdle /\ TopoIdle /\ ProcIdle

(* -------------------------------------------------- workflow: the steps *)

Terminal == pc \in {"succeeded", "failed"}

StepOk(step) ==
  /\ pc = step
  /\ pc' = NextStep(step)
  /\ log' = Append(log, <<step, "Ok">>)

StepFail(step) ==
  /\ pc = step
  /\ pc' = AfterFailure(step)
  /\ log' = Append(log, <<step, "Failed">>)

StartRun(r, p) ==
  /\ pc = "pending" \/ Terminal
  /\ run < MaxRuns
  /\ run' = run + 1
  /\ rev' = r
  /\ pin' = p
  /\ pc' = Workflow[1]
  /\ log' = <<>>
  /\ upDone' = {}
  /\ recreations' = 0
  /\ runStart' = [registry |-> registry, host |-> Host]
  /\ UNCHANGED <<registry, hostFiles, localTags, hostImages, containers,
                 deployStart, lastGood, deployed>>

\* on: push to main / workflow_dispatch, the manifest as committed
Trigger(r) == StartRun(r, AllLatest)

DeployedRevs == {deployed[i][2] : i \in 1..Len(deployed)}

\* the same trigger on a revision whose manifest pins service t to the tag of
\* a revision deployed before
TriggerPinned(r, t, old) ==
  /\ old \in DeployedRevs
  /\ StartRun(r, Pinned(t, old))

\* actions/checkout, docker/setup-buildx-action, docker/login-action
SetupOk(step) ==
  /\ step \in {"checkout", "buildx", "login"}
  /\ StepOk(step)
  /\ UNCHANGED <<run, rev, pin, registry, hostFiles, localTags, hostImages, containers,
                 upDone, recreations, runStart, deployStart, lastGood, deployed>>

SetupFail(step) ==
  /\ step \in {"checkout", "buildx", "login"}
  /\ StepFail(step)
  /\ UNCHANGED <<run, rev, pin, registry, hostFiles, localTags, hostImages, containers,
                 upDone, recreations, runStart, deployStart, lastGood, deployed>>

BuildStep(s) == IF s = "backend" THEN "build_backend" ELSE "build_frontend"

PushStep(s) == IF s = "backend" THEN "push_backend" ELSE "push_frontend"

\* docker/build-push-action, first half: the image is built from the context
BuildOk(s) ==
  /\ s \in Built
  /\ StepOk(BuildStep(s))
  /\ UNCHANGED <<run, rev, pin, registry, hostFiles, localTags, hostImages, containers,
                 upDone, recreations, runStart, deployStart, lastGood, deployed>>

BuildFail(s) ==
  /\ s \in Built
  /\ StepFail(BuildStep(s))
  /\ UNCHANGED <<run, rev, pin, registry, hostFiles, localTags, hostImages, containers,
                 upDone, recreations, runStart, deployStart, lastGood, deployed>>

\* docker/build-push-action, second half (push: true): the image just built is
\* pushed under the step's tags, before the next service is built
PushOk(s) ==
  /\ s \in Built
  /\ StepOk(PushStep(s))
  /\ registry' = [registry EXCEPT ![s] =
       [t \in Tags |-> IF t \in PushTags(rev) THEN Img(s, run, rev) ELSE registry[s][t]]]
  /\ deployStart' = IF pc' = DeployJob[1] THEN Host ELSE deployStart
  /\ UNCHANGED <<run, rev, pin, hostFiles, localTags, hostImages, containers,
                 upDone, recreations, runStart, lastGood, deployed>>

PushFail(s) ==
  /\ s \in Built
  /\ StepFail(PushStep(s))
  /\ UNCHANGED <<run, rev, pin, registry, hostFiles, localTags, hostImages, containers,
                 upDone, recreations, runStart, deployStart, lastGood, deployed>>

NewFiles == [compose |-> [rev |-> rev, pin |-> pin], nginxConf |-> rev]

\* appleboy/scp-action: docker-compose.yml and nginx/default.conf to /opt/myapp
ScpOk ==
  /\ StepOk("scp")
  /\ hostFiles' = NewFiles
  /\ UNCHANGED <<run, rev, pin, registry, localTags, hostImages, containers,
                 upDone, recreations, runStart, deployStart, lastGood, deployed>>

\* a failed transfer has written nothing, or the first file only
ScpFail ==
  /\ StepFail("scp")
  /\ \/ hostFiles' = hostFiles
     \/ hostFiles' = [hostFiles EXCEPT !.compose = NewFiles.compose]
  /\ UNCHANGED <<run, rev, pin, registry, localTags, hostImages, containers,
                 upDone, recreations, runStart, deployStart, lastGood, deployed>>

\* set -e; cd /opt/myapp   and   docker login
RemoteOk(step) ==
  /\ step \in {"cd", "docker_login"}
  /\ StepOk(step)
  /\ UNCHANGED <<run, rev, pin, registry, hostFiles, localTags, hostImages, containers,
                 upDone, recreations, runStart, deployStart, lastGood, deployed>>

RemoteFail(step) ==
  /\ step \in {"cd", "docker_login"}
  /\ StepFail(step)
  /\ UNCHANGED <<run, rev, pin, registry, hostFiles, localTags, hostImages, containers,
                 upDone, recreations, runStart, deployStart, lastGood, deployed>>

\* the manifest the remote commands read is the one on the host
HostPin == hostFiles.compose.pin

Resolvable == {s \in Built : HostPin[s] \in Tags /\ registry[s][HostPin[s]] # NoImage}

Pulled(P) ==
  /\ localTags' = [s \in Built |->
       IF s \in P THEN [localTags[s] EXCEPT ![HostPin[s]] = registry[s][HostPin[s]]]
       ELSE localTags[s]]
  /\ hostImages' = hostImages \cup {registry[s][HostPin[s]] : s \in P}

\* docker compose pull: every image reference of the manifest is fetched
PullOk ==
  /\ Resolvable = Built
  /\ StepOk("pull")
  /\ Pulled(Built)
  /\ UNCHANGED <<run, rev, pin, registry, hostFiles, containers,
                 upDone, recreations, runStart, deployStart, lastGood, deployed>>

\* a reference the registry does not hold fails the pull; so can the network,
\* after some of the images have arrived
PullFail ==
  /\ StepFail("pull")
  /\ \E P \in SUBSET Resolvable : P # Built /\ Pulled(P)
  /\ UNCHANGED <<run, rev, pin, registry, hostFiles, containers,
                 upDone, recreations, runStart, deployStart, lastGood, deployed>>

\* the container the manifest on the host asks for
Desired(s) ==
  [img |-> IF s \in Built
           THEN (IF HostPin[s] \in Tags THEN localTags[s][HostPin[s]] ELSE NoImage)
           ELSE ExternalImage(s),
   ref |-> ImageRef(HostPin, s)]

\* docker compose up -d recreates a container whose image or configuration
\* differs from the manifest; --force-recreate would recreate every one
NeedsRecreate_force(s) == containers[s] # NoContainer

NeedsRecreate(s) == containers[s] # NoContainer /\ containers[s] # Desired(s)

\* docker compose up -d --remove-orphans, one service
UpService(s) ==
  /\ pc = "up"
  /\ Startable(RepoDependsOn, upDone, s)
  /\ containers' = [containers EXCEPT ![s] = Desired(s)]
  /\ recreations' = recreations + (IF NeedsRecreate(s) THEN 1 ELSE 0)
  /\ upDone' = upDone \cup {s}
  /\ UNCHANGED <<pc, run, rev, pin, log, registry, hostFiles, localTags, hostImages,
                 runStart, deployStart, lastGood, deployed>>

UpOk ==
  /\ upDone = Services
  /\ StepOk("up")
  /\ UNCHANGED <<run, rev, pin, registry, hostFiles, localTags, hostImages, containers,
                 upDone, recreations, runStart, deployStart, lastGood, deployed>>

\* up fails between two services, or while swapping the container of one:
\* the old container is stopped and the new one is not running
UpFail ==
  /\ upDone # Services
  /\ StepFail("up")
  /\ \/ containers' = containers
     \/ \E s \in Services :
          /\ Startable(RepoDependsOn, upDone, s)
          /\ NeedsRecreate(s)
          /\ containers' = [containers EXCEPT ![s] = NoContainer]
  /\ UNCHANGED <<run, rev, pin, registry, hostFiles, localTags, hostImages,
                 upDone, recreations, runStart, deployStart, lastGood, deployed>>

InUse == {containers[s].img : s \in Built}

Tagged == {localTags[s][t] : s \in Built, t \in Tags}

\* docker system prune -f: images neither tagged nor used by a container go
PruneOk ==
  /\ StepOk("prune")
  /\ hostImages' = hostImages \cap (InUse \cup Tagged)
  /\ lastGood' = IF pc' = "succeeded" THEN Host ELSE lastGood
  /\ deployed' = IF pc' = "succeeded" /\ (deployed = <<>> \/ deployed[Len(deployed)][1] # run)
                 THEN Append(deployed, <<run, rev>>) ELSE deployed
  /\ UNCHANGED <<run, rev, pin, registry, hostFiles, localTags, containers,
                 upDone, recreations, runStart, deployStart>>

PruneFail ==
  /\ StepFail("prune")
  /\ UNCHANGED <<run, rev, pin, registry, hostFiles, localTags, hostImages, containers,
                 upDone, recreations, runStart, deployStart, lastGood, deployed>>

BuildJobOk == \A i \in 1..Len(BuildJob) : i <= Len(log) /\ log[i] = <<BuildJob[i], "Ok">>

\* the deploy job of the current run is run again (re-run of a job whose
\* needs are satisfied); nothing is built or pushed
RerunDeploy ==
  /\ Terminal
  /\ BuildJobOk
  /\ Len(log) > Len(BuildJob)
  /\ pc' = DeployJob[1]
  /\ log' = SubSeq(log, 1, Len(BuildJob))
  /\ upDone' = {}
  /\ recreations' = 0
  /\ deployStart' = Host
  /\ UNCHANGED <<run, rev, pin, registry, hostFiles, localTags, hostImages, containers,
                 runStart, lastGood, deployed>>

\* the router and the topology of the other specifications stay idle
RestIdle == UNCHANGED <<routerVars, topoVars, procVars>>

Next ==
  \/ \E r \in Revisions : Trigger(r) /\ RestIdle
  \/ \E r \in Revisions, t \in Built, old \in Revisions : TriggerPinned(r, t, old) /\ RestIdle
  \/ \E step \in {"checkout", "buildx", "login"} : SetupOk(step) /\ RestIdle
  \/ \E step \in {"checkout", "buildx", "login"} : SetupFail(step) /\ RestIdle
  \/ \E s \in Built : BuildOk(s) /\ RestIdle
  \/ \E s \in Built : BuildFail(s) /\ RestIdle
  \/ \E s \in Built : PushOk(s) /\ RestIdle
  \/ \E s \in Built : PushFail(s) /\ RestIdle
  \/ ScpOk /\ RestIdle
  \/ ScpFail /\ RestIdle
  \/ \E step \in {"cd", "docker_login"} : RemoteOk(step) /\ RestIdle
  \/ \E step \in {"cd", "docker_login"} : RemoteFail(step) /\ RestIdle
  \/ PullOk /\ RestIdle
  \/ PullFail /\ RestIdle
  \/ \E s \in Services : UpService(s) /\ RestIdle
  \/ UpOk /\ RestIdle
  \/ UpFail /\ RestIdle
  \/ PruneOk /\ RestIdle
  \/ PruneFail /\ RestIdle
  \/ RerunDeploy /\ RestIdle

Spec == Init /\ [][Next]_vars

(* ------------------------------------------------ workflow: the claims *)

Logged(step, outcome) == \E i \in 1..Len(log) : log[i] = <<step, outcome>>

Ran(step) == \E i \in 1..Len(log) : log[i][1] = step

DeployRan == \E step \in Range(DeployJob) : Ran(step)

FailedStep == IF Len(log) > 0 /\ log[Len(log)][2] = "Failed" THEN log[Len(log)][1] ELSE "none"

\* the backend was built and the build of the frontend failed
FrontendBuildFailed == Logged("build_backend", "Ok") /\ Logged("build_frontend", "Failed")

\* C1 as the spec states it: when the frontend build fails after the backend
\* build succeeded, the run is Failed, the backend image of this run is under
\* no tag of the registry, and no deploy step touched the host.
C1_Original ==
  FrontendBuildFailed =>
    /\ pc = "failed"
    /\ \A t \in Tags : registry["backend"][t] # Img("backend", run, rev)
    /\ ~DeployRan
    /\ Host = runStart.host

\* C1 amended: when the frontend build fails after the backend build succeeded,
\* the run is Failed and no deploy step touched the host, but the backend image
\* of this run has been published as latest (each build-push step pushes before
\* the next service is built); the frontend's tags are those of before the run.
C1_PartialFailure ==
  FrontendBuildFailed =>
    /\ pc = "failed"
    /\ registry["backend"][Latest] = Img("backend", run, rev)
    /\ registry["frontend"] = runStart.registry["frontend"]
    /\ ~DeployRan
    /\ Host = runStart.host

C1_Witness ==
  /\ FrontendBuildFailed
  /\ pc = "failed"
  /\ runStart.host.containers["backend"] # NoContainer
  /\ registry["backend"][Latest] # containers["backend"].img

\* the steps logged so far are the first steps of the workflow, in its order
LogInWorkflowOrder == \A i \in 1..Len(log) : i <= Len(Workflow) /\ log[i][1] = Workflow[i]

\* a failed step is the last step of the run
FailedIsLast == \A i \in 1..Len(log) : log[i][2] = "Failed" => i = Len(log) /\ pc = "failed"

\* a deploy step starts only after every build and every push succeeded
DeployAfterPublish == (pc \in Range(DeployJob) \/ DeployRan) => BuildJobOk

SucceededMeansAllOk ==
  pc = "succeeded" => log = [i \in 1..Len(Workflow) |-> <<Workflow[i], "Ok">>]

\* C2 as the spec states it: Building, Publishing and Deploying are three stages
\* that do not overlap, so nothing is published before every build is done; no
\* deploy step starts before every image is built and published; Succeeded needs
\* every step Ok; nothing runs after a failed step.
C2_Original ==
  /\ \A s \in Built : Ran(PushStep(s)) => \A t \in Built : Logged(BuildStep(t), "Ok")
  /\ DeployAfterPublish
  /\ SucceededMeansAllOk
  /\ FailedIsLast

\* C2 amended: building and publishing are interleaved per service (the backend
\* is built and pushed, then the frontend is built and pushed), each push after
\* the build of its own image; Deploying follows both; no deploy step starts
\* before every image is built and published; Succeeded needs every step Ok;
\* nothing runs after a failed step.
C2_StageOrder ==
  /\ LogInWorkflowOrder
  /\ \A s \in Built : Ran(PushStep(s)) => Logged(BuildStep(s), "Ok")
  /\ Ran("build_frontend") => Logged("push_backend", "Ok")
  /\ DeployAfterPublish
  /\ SucceededMeansAllOk
  /\ FailedIsLast

C2_Witness ==
  /\ pc = "succeeded"
  /\ run = 2
  /\ \A s \in Services : containers[s] # NoContainer

Published == Logged("push_frontend", "Ok")

\* C3 as the spec states it: after Publishing, each built image is in the
\* registry under latest and under the tag of the triggering revision.
C3_Original ==
  Published =>
    \A s \in Built :
      /\ registry[s][Latest] = Img(s, run, rev)
      /\ registry[s][Sha(rev)] = Img(s, run, rev)

\* C3 amended: after Publishing, each built image is in the registry under the
\* mutable tag latest only; the workflow publishes no content-addressed tag
\* (README 5.8 recommends one), so there is never one to overwrite.
C3_LatestOnly ==
  /\ Published => \A s \in Built : registry[s][Latest] = Img(s, run, rev)
  /\ \A s \in Built, r \in Revisions : registry[s][Sha(r)] = NoImage

C3_Witness ==
  /\ Published
  /\ run = 2
  /\ \A s \in Built : registry[s][Latest] = Img(s, 2, rev)
  /\ runStart.registry["backend"][Latest] = Img("backend", 1, 111)

\* the deploy steps logged by the current attempt of the deploy job
DeployLog == IF Len(log) > Len(BuildJob) THEN SubSeq(log, Len(BuildJob) + 1, Len(log)) ELSE <<>>

\* C4: the deploy steps run in the order transfer, (cd, docker login,) pull,
\* recreate, clean up, each once and each after the previous one succeeded; a
\* failed step ends the job as Failed, so no later step runs: no cleanup after a
\* failed pull or recreate, no pull of a manifest that was not transferred.
C4_DeployOrder ==
  /\ \A i \in 1..Len(DeployLog) : i <= Len(DeployJob) /\ DeployLog[i][1] = DeployJob[i]
  /\ \A i \in 1..Len(DeployLog) : i < Len(DeployLog) => DeployLog[i][2] = "Ok"
  /\ \A i \in 1..Len(DeployLog) : DeployLog[i][2] = "Failed" => pc = "failed"
  /\ pc \in Range(DeployJob) => pc = DeployJob[Len(DeployLog) + 1]
  /\ Logged("pull", "Failed") \/ Logged("up", "Failed") => ~Ran("prune")
  /\ Ran("pull") => hostFiles = NewFiles
  /\ Ran("up") => \A s \in Built : localTags[s][pin[s]] = registry[s][pin[s]]
  /\ pc # "up" /\ ~Ran("up") => upDone = {} /\ recreations = 0

C4_Witness ==
  /\ pc = "failed"
  /\ Logged("pull", "Failed")
  /\ \E s \in Built : localTags[s][Latest] # containers[s].img /\ containers[s] # NoContainer

\* C5 as the spec states it: whatever step fails, the host is as the last
\* successful deploy left it: files, images in use and containers.
C5_Original == pc = "failed" => Host = lastGood

\* C5 amended: a failure in the build-and-push job leaves the host as it was; a
\* failure in the deploy job is not rolled back: the containers are unchanged
\* only if the failure comes before the recreate step, the files transferred
\* stay on the host, and a failure after the recreate step leaves every
\* container as the new manifest asks.
C5_FailureLeaves ==
  pc = "failed" =>
    /\ FailedStep \in Range(BuildJob) => Host = runStart.host
    /\ FailedStep \in {"scp", "cd", "docker_login", "pull"} =>
         containers = deployStart.containers
    /\ FailedStep \in {"cd", "docker_login", "pull", "up", "prune"} => hostFiles = NewFiles
    /\ FailedStep = "prune" => \A s \in Services : containers[s] = Desired(s)

C5_Witness ==
  /\ pc = "failed"
  /\ FailedStep = "up"
  /\ lastGood.containers["backend"] # NoContainer
  /\ containers["backend"] # lastGood.containers["backend"]
  /\ containers["frontend"] = lastGood.containers["frontend"]
  /\ hostFiles # lastGood.files

\* the deploy job of the current run has started
InDeploy == BuildJobOk /\ (pc \in Range(DeployJob) \/ (Terminal /\ DeployRan))

\* when the deploy job started, the host already held this manifest and ran,
\* for every service, the image the manifest's reference resolves to
UnchangedAtStart ==
  /\ deployStart.files = NewFiles
  /\ \A s \in Services :
       deployStart.containers[s] =
         [img |-> IF s \in Built THEN registry[s][pin[s]] ELSE ExternalImage(s),
          ref |-> ImageRef(pin, s)]

\* C6: a deploy that starts with manifest, configuration and images unchanged
\* recreates no container and leaves every container as it was.
C6_Idempotent ==
  InDeploy /\ UnchangedAtStart => recreations = 0 /\ containers = deployStart.containers

C6_Witness == pc = "succeeded" /\ InDeploy /\ UnchangedAtStart /\ upDone = Services

\* the spec's scenario: revision 111 deployed, then 222, then a deploy whose
\* manifest pins service s to sha-111, every step before the pull being Ok
RollbackOf(s) ==
  /\ run = 3
  /\ Len(deployed) >= 2 /\ deployed[1] = <<1, 111>> /\ deployed[2] = <<2, 222>>
  /\ pin = Pinned(s, 111)
  /\ Terminal
  /\ BuildJobOk /\ Logged("scp", "Ok") /\ Logged("cd", "Ok") /\ Logged("docker_login", "Ok")

\* C10 as the spec states it: after that deploy the service runs the image of
\* revision 111 and every other service runs the image it ran before.
C10_Original ==
  \A s \in Built :
    RollbackOf(s) =>
      /\ containers[s].img = Img(s, 1, 111)
      /\ \A t \in Services \ {s} : containers[t].img = runStart.host.containers[t].img

\* C10 amended: the workflow publishes no content-addressed tag, so a deploy
\* whose manifest pins a service to one (sha-111 after 111 and 222 were
\* deployed) fails at the pull step: the run never succeeds, nothing is
\* recreated, and every service keeps running the image it ran before.
C10_PinnedDeployFails ==
  pin # AllLatest =>
    /\ pc # "succeeded"
    /\ ~Logged("pull", "Ok") /\ ~Ran("up")
    /\ recreations = 0
    /\ containers = runStart.host.containers

C10_Witness ==
  /\ RollbackOf("backend")
  /\ pc = "failed"
  /\ Logged("pull", "Failed")
  /\ containers["backend"].img = Img("backend", 2, 222)
  /\ registry["backend"][Latest] = Img("backend", 3, rev)

(* ---------------------------------------------- reverse proxy: the rules *)

\* a path is the sequence of its characters
Root == <<"/">>

ApiPrefix == <<"/", "a", "p", "i", "/">>

ApiNoSlash == <<"/", "a", "p", "i">>

ApiHealth == <<"/", "a", "p", "i", "/", "h", "e", "a", "l", "t", "h">>

ApiHealthSlash == Append(ApiHealth, "/")

HealthPath == <<"/", "h", "e", "a", "l", "t", "h">>

Alphabet == {"/", "a", "p", "i", "x"}

\* request paths as nginx matches them (decoded, adjacent slashes merged):
\* every path of at most MaxPathLen characters, and the paths the documents name
RequestPaths ==
  {q \in UNION {[1..k -> Alphabet] : k \in 1..MaxPathLen} :
     /\ q[1] = "/"
     /\ \A i \in 1..(Len(q) - 1) : ~(q[i] = "/" /\ q[i + 1] = "/")}
    \cup {ApiHealth, ApiHealthSlash, HealthPath, ApiPrefix \o <<"x">>}

HasPrefix(q, pre) == Len(pre) <= Len(q) /\ SubSeq(q, 1, Len(pre)) = pre

Frontend == <<"frontend", 3000>>

Backend == <<"backend", 4000>>

NoUpstream == <<"none", 0>>

\* location / { proxy_pass http://frontend:3000; }
FrontendRule == [prefix |-> Root, upstream |-> Frontend, uri |-> <<>>]

\* location /api/ { proxy_pass http://backend:4000; }   no URI in proxy_pass
ApiRule == [prefix |-> ApiPrefix, upstream |-> Backend, uri |-> <<>>]

\* location /api/ { proxy_pass http://backend:4000/; }  the Phase 1 version
ApiRuleStripping == [prefix |-> ApiPrefix, upstream |-> Backend, uri |-> Root]

\* the two configurations, each with its locations in either order
RuleTables ==
  {<<FrontendRule, ApiRule>>, <<ApiRule, FrontendRule>>,
   <<FrontendRule, ApiRuleStripping>>, <<ApiRuleStripping, FrontendRule>>}

Matching(table, q) == {i \in 1..Len(table) : HasPrefix(q, table[i].prefix)}

\* the first location in configuration order that matches
Route_firstMatch(table, q) ==
  IF Matching(table, q) = {} THEN 0
  ELSE CHOOSE i \in Matching(table, q) : \A j \in Matching(table, q) : i <= j

\* nginx picks, among the prefix locations that match, the longest one,
\* whatever the order of the location blocks (0: no location matches)
Route(table, q) ==
  IF Matching(table, q) = {} THEN 0
  ELSE CHOOSE i \in Matching(table, q) :
         \A j \in Matching(table, q) :
           \/ Len(table[j].prefix) < Len(table[i].prefix)
           \/ (Len(table[j].prefix) = Len(table[i].prefix) /\ i <= j)

\* a location that ends in "/" and proxies answers the same path without the
\* trailing slash with a permanent redirect to the path with the slash
AutoRedirect(table, q) == \E i \in 1..Len(table) : table[i].prefix = Append(q, "/")

\* the matched prefix is always replaced by "/"
ForwardPath_alwaysStrip(rule, q) == Root \o SubSeq(q, Len(rule.prefix) + 1, Len(q))

\* proxy_pass without a URI forwards the request path unchanged; with a URI the
\* matched prefix is replaced by that URI
ForwardPath(rule, q) ==
  IF rule.uri = <<>> THEN q
  ELSE rule.uri \o SubSeq(q, Len(rule.prefix) + 1, Len(q))

\* Express matches a route with or without one trailing slash
RoutePath(q) == IF Len(q) > 1 /\ q[Len(q)] = "/" THEN SubSeq(q, 1, Len(q) - 1) ELSE q

\* server.js: app.get("/"), app.get("/api/health"); any other path is left to
\* the tutorial routes and Express's "Cannot GET"
BackendHandle(q) ==
  IF q = Root THEN [status |-> 200, body |-> "welcome"]
  ELSE IF RoutePath(q) = ApiHealth THEN [status |-> 200, body |-> "status_ok"]
  ELSE [status |-> 404, body |-> "unrouted"]

\* the answer of the public listener to a GET of path q
Proxy(table, q) ==
  IF AutoRedirect(table, q)
  THEN [status |-> 301, upstream |-> NoUpstream, path |-> Append(q, "/"), body |-> "redirect"]
  ELSE IF Route(table, q) = 0
  THEN [status |-> 404, upstream |-> NoUpstream, path |-> q, body |-> "not_found"]
  ELSE LET rule == table[Route(table, q)]
           fwd == ForwardPath(rule, q)
       IN IF rule.upstream = Backend
          THEN [status |-> BackendHandle(fwd).status, upstream |-> Backend,
                path |-> fwd, body |-> BackendHandle(fwd).body]
          ELSE [status |-> 200, upstream |-> rule.upstream, path |-> fwd, body |-> "app"]

NoResponse == [status |-> 0, upstream |-> NoUpstream, path |-> <<>>, body |-> "none"]

RouterInit ==
  /\ ruleTable \in RuleTables
  /\ reqPath = <<>>
  /\ resp = NoResponse

\* a request arrives on the public listener
Receive(q) ==
  /\ reqPath = <<>>
  /\ reqPath' = q
  /\ UNCHANGED <<ruleTable, resp>>

\* the request is matched against the locations and proxied
HandleRequest ==
  /\ reqPath # <<>>
  /\ resp = NoResponse
  /\ resp' = Proxy(ruleTable, reqPath)
  /\ UNCHANGED <<ruleTable, reqPath>>

\* the answer is sent; the listener takes the next request
Finish ==
  /\ resp # NoResponse
  /\ reqPath' = <<>>
  /\ resp' = NoResponse
  /\ UNCHANGED ruleTable

RouterNext ==
  \/ reqPath = <<>> /\ (\E q \in RequestPaths : Receive(q)) /\ UNCHANGED <<pipelineVars, topoVars, procVars>>
  \/ HandleRequest /\ UNCHANGED <<pipelineVars, topoVars, procVars>>
  \/ Finish /\ UNCHANGED <<pipelineVars, topoVars, procVars>>

InitRouter == PipelineInit /\ RouterInit /\ TopoIdle /\ ProcIdle

SpecRouter == InitRouter /\ [][RouterNext]_vars

Answered == resp.status # 0

Reverse(table) == [i \in 1..Len(table) |-> table[Len(table) + 1 - i]]

\* C7 as the spec states it: a path that starts with /api/ goes to the backend,
\* every other path, /api included, goes to the frontend; the order of the two
\* rules does not matter.
C7_Original ==
  Answered =>
    /\ HasPrefix(reqPath, ApiPrefix) => resp.upstream = Backend
    /\ ~HasPrefix(reqPath, ApiPrefix) => resp.upstream = Frontend
    /\ resp = Proxy(Reverse(ruleTable), reqPath)

\* C7 amended: a path that starts with /api/ goes to the backend; the path /api
\* itself goes to neither service, the proxy answers it with a permanent
\* redirect to /api/; every other path goes to the frontend with its path
\* unchanged; the order of the two rules does not matter.
C7_LongestPrefix ==
  Answered =>
    /\ HasPrefix(reqPath, ApiPrefix) => resp.upstream = Backend
    /\ reqPath = ApiNoSlash =>
         resp.status = 301 /\ resp.upstream = NoUpstream /\ resp.path = ApiPrefix
    /\ ~HasPrefix(reqPath, ApiPrefix) /\ reqPath # ApiNoSlash =>
         resp.upstream = Frontend /\ resp.path = reqPath
    /\ resp = Proxy(Reverse(ruleTable), reqPath)

C7_Witness ==
  /\ reqPath = ApiHealth
  /\ resp.upstream = Backend
  /\ ruleTable[1].prefix = Root

Stripping == \E i \in 1..Len(ruleTable) : ruleTable[i].uri # <<>>

\* C8: the /api/ rule of the configuration does not strip: the backend gets the
\* request path unchanged and GET /api/health is answered {status: "ok"}; the
\* stripping rule forwards the path with the prefix /api/ replaced by /, so
\* /api/health arrives as /health, which the backend does not route.
C8_PrefixKept ==
  Answered /\ HasPrefix(reqPath, ApiPrefix) =>
    /\ ~Stripping =>
         /\ resp.path = reqPath
         /\ reqPath = ApiHealth => resp.status = 200 /\ resp.body = "status_ok"
    /\ Stripping =>
         /\ resp.path = Root \o SubSeq(reqPath, Len(ApiPrefix) + 1, Len(reqPath))
         /\ reqPath = ApiHealth =>
              resp.path = HealthPath /\ resp.status = 404 /\ resp.body = "unrouted"

C8_Witness ==
  /\ ~Stripping
  /\ reqPath = ApiHealth
  /\ resp = [status |-> 200, upstream |-> Backend, path |-> ApiHealth, body |-> "status_ok"]

(* ------------------------------------------- compose: the bring-up order *)

ChainServices == {"db", "backend", "frontend"}

\* the scenario {db, backend(depends_on=db), frontend(depends_on=backend)}
ChainDependsOn ==
  [s \in ChainServices |->
     IF s = "backend" THEN {"db"} ELSE IF s = "frontend" THEN {"backend"} ELSE {}]

Perms(S) == {q \in [1..Cardinality(S) -> S] : \A i, j \in 1..Cardinality(S) : q[i] = q[j] => i = j}

\* compose rejects a manifest whose depends_on has a cycle
Acyclic(d) ==
  \E q \in Perms(DOMAIN d) : \A i \in 1..Len(q) : \A a \in d[q[i]] : Pos(q, a) < i

\* the repository's topology, the scenario, and every acyclic depends_on over
\* the scenario's three services
Topologies ==
  {RepoDependsOn, ChainDependsOn}
    \cup {d \in [ChainServices -> SUBSET ChainServices] : Acyclic(d)}

TopoInit ==
  /\ topo \in Topologies
  /\ order = <<>>

\* docker compose up starts one more service
ComposeStart(s) ==
  /\ Startable(topo, Range(order), s)
  /\ order' = Append(order, s)
  /\ UNCHANGED topo

TopoNext ==
  (\E s \in Services \cup ChainServices : s \in DOMAIN topo /\ ComposeStart(s))
    /\ UNCHANGED <<pipelineVars, routerVars, procVars>>

InitTopology == PipelineInit /\ RouterIdle /\ TopoInit /\ ProcIdle

SpecTopology == InitTopology /\ [][TopoNext]_vars

\* C9: a service is started only after every service it depends on: nginx
\* after frontend and backend in the repository's topology, and the scenario
\* topology comes up as [db, backend, frontend].
C9_BringUpOrder ==
  /\ \A b \in Range(order) : \A a \in topo[b] :
       a \in Range(order) /\ Pos(order, a) < Pos(order, b)
  /\ topo = RepoDependsOn /\ "nginx" \in Range(order) =>
       /\ Pos(order, "frontend") < Pos(order, "nginx")
       /\ Pos(order, "backend") < Pos(order, "nginx")
  /\ topo = ChainDependsOn /\ Len(order) = Cardinality(ChainServices) =>
       order = <<"db", "backend", "frontend">>

C9_Witness ==
  /\ topo = ChainDependsOn
  /\ order = <<"db", "backend", "frontend">>

(* --------------------------------- backend process and its database *)

\* times the database may become unreachable again after having been up
MaxOutages == 2

\* docker-compose.yml: the restart key of each service; nginx has none, and
\* the default of a service without the key is "no"
RestartPolicy_onFailure(s) == "on-failure"

RestartPolicy(s) == IF s \in {"frontend", "backend", "mongo"} THEN "always" ELSE "no"

\* server.js: process.exit() is called without an argument, so the exit code
\* is 0
ExitCode == 0

\* what the restart key makes the container engine do with an exited container
ShouldRestart(policy, code) ==
  \/ policy = "always"
  \/ policy = "on-failure" /\ code # 0

Reachable == mongo = "up"

\* node runs server.js: connect() is issued and left pending, and app.listen is
\* called; neither has completed when the script's synchronous part ends
StartProcess ==
  /\ beProc' = "running"
  /\ listening' = FALSE
  /\ conn' = "connecting"
  /\ sawDown' = ~Reachable

\* compose up starts the backend container; it waits for no other service
ComposeUpBackend ==
  /\ beProc = "created"
  /\ Startable(RepoDependsOn, {}, "backend")
  /\ StartProcess
  /\ startedFirst' = IF startedFirst = "none" THEN "backend" ELSE startedFirst
  /\ UNCHANGED <<mongo, outages, hasExited, health>>

\* compose up starts the mongo container
ComposeUpMongo ==
  /\ mongo = "created"
  /\ Startable(RepoDependsOn, {}, "mongo")
  /\ mongo' = "starting"
  /\ startedFirst' = IF startedFirst = "none" THEN "mongo" ELSE startedFirst
  /\ UNCHANGED <<outages, beProc, listening, conn, sawDown, hasExited, health>>

\* mongod accepts connections
MongoReady ==
  /\ mongo = "starting"
  /\ mongo' = "up"
  /\ UNCHANGED <<outages, beProc, listening, conn, sawDown, hasExited, startedFirst, health>>

\* the database becomes unreachable; a connection already established is
\* lost without the process leaving (the catch handler belongs to the first
\* connect only), a pending connect has now met an unreachable database
MongoOutage ==
  /\ mongo = "up"
  /\ outages < MaxOutages
  /\ mongo' = "down"
  /\ outages' = outages + 1
  /\ conn' = IF conn = "connected" THEN "reconnecting" ELSE conn
  /\ sawDown' = (sawDown \/ conn = "connecting")
  /\ UNCHANGED <<beProc, listening, hasExited, startedFirst, health>>

\* restart: always brings mongo back
MongoRecover ==
  /\ mongo = "down"
  /\ ShouldRestart(RestartPolicy("mongo"), 1)
  /\ mongo' = "up"
  /\ UNCHANGED <<outages, beProc, listening, conn, sawDown, hasExited, startedFirst, health>>

\* server.js: app.listen(PORT, HOST, ...) completes; nothing in it looks at
\* the connection
Listen ==
  /\ beProc = "running"
  /\ ~listening
  /\ listening' = TRUE
  /\ UNCHANGED <<mongo, outages, beProc, conn, sawDown, hasExited, startedFirst, health>>

\* server.js: connect(...).then: "Connected to the database!"
ConnectOk ==
  /\ beProc = "running"
  /\ conn = "connecting"
  /\ Reachable
  /\ conn' = "connected"
  /\ sawDown' = FALSE
  /\ UNCHANGED <<mongo, outages, beProc, listening, hasExited, startedFirst, health>>

\* server.js: connect(...).catch: "Cannot connect to the database!" and
\* process.exit(); the process and its listener are gone
ConnectFail ==
  /\ beProc = "running"
  /\ conn = "connecting"
  /\ sawDown
  /\ beProc' = "exited"
  /\ listening' = FALSE
  /\ conn' = "none"
  /\ sawDown' = FALSE
  /\ hasExited' = TRUE
  /\ UNCHANGED <<mongo, outages, startedFirst, health>>

\* the driver re-establishes a lost connection inside the running process
Reconnect ==
  /\ beProc = "running"
  /\ conn = "reconnecting"
  /\ Reachable
  /\ conn' = "connected"
  /\ UNCHANGED <<mongo, outages, beProc, listening, sawDown, hasExited, startedFirst, health>>

\* the container engine applies the backend's restart key to the exited
\* container
DockerRestart ==
  /\ beProc = "exited"
  /\ ShouldRestart(RestartPolicy("backend"), ExitCode)
  /\ StartProcess
  /\ UNCHANGED <<mongo, outages, hasExited, startedFirst, health>>

\* a GET of /api/health sent to the backend's port: answered by the route of
\* server.js when the listener is bound, refused otherwise
HealthProbe ==
  /\ health' = [body |-> IF beProc = "running" /\ listening
                         THEN BackendHandle(ApiHealth).body ELSE "refused",
                conn |-> conn]
  /\ UNCHANGED <<mongo, outages, beProc, listening, conn, sawDown, hasExited, startedFirst>>

OthersIdle == UNCHANGED <<pipelineVars, routerVars, topoVars>>

ProcNext ==
  \/ ComposeUpBackend /\ OthersIdle
  \/ ComposeUpMongo /\ OthersIdle
  \/ MongoReady /\ OthersIdle
  \/ MongoOutage /\ OthersIdle
  \/ MongoRecover /\ OthersIdle
  \/ Listen /\ OthersIdle
  \/ ConnectOk /\ OthersIdle
  \/ ConnectFail /\ OthersIdle
  \/ Reconnect /\ OthersIdle
  \/ DockerRestart /\ OthersIdle
  \/ HealthProbe /\ OthersIdle

InitBackend == PipelineInit /\ RouterIdle /\ TopoIdle /\ ProcIdle

\* compose up does start the backend, the event loop does complete listen and
\* settle the connect promise, the driver does reconnect, and the container
\* engine does act on an exited container; the database is left free
ProcFairness ==
  /\ WF_vars(ComposeUpBackend /\ OthersIdle)
  /\ WF_vars(Listen /\ OthersIdle)
  /\ WF_vars(ConnectOk /\ OthersIdle)
  /\ WF_vars(ConnectFail /\ OthersIdle)
  /\ WF_vars(Reconnect /\ OthersIdle)
  /\ WF_vars(DockerRestart /\ OthersIdle)

SpecBackend == InitBackend /\ [][ProcNext]_vars /\ ProcFairness

ConnectedAndListening == beProc = "running" /\ listening /\ conn = "connected"

\* C11: the listener and the health answer do not wait for the connection (a
\* probe is answered status ok exactly when the listener is bound, whatever
\* the connection state); a failed first connect ends the process; an exited
\* backend is started again; and in every execution in which the database
\* eventually is and stays reachable, the backend eventually is and stays
\* connected and listening, whichever of mongo and backend was started first
C11_EventuallyConnected ==
  /\ [][HealthProbe => (health'.body = "status_ok" <=> (beProc = "running" /\ listening))]_vars
  /\ [][(conn = "connecting" /\ conn' = "none") => (beProc' = "exited" /\ ~listening')]_vars
  /\ (beProc = "exited") ~> (beProc = "running")
  /\ (<>[]Reachable) => <>[]ConnectedAndListening

\* the backend was started before mongo, answered the health probe while the
\* connect was still pending, exited on the failed connect, was started again
\* and is now connected and listening
C11_Witness ==
  /\ startedFirst = "backend"
  /\ hasExited
  /\ health = [body |-> "status_ok", conn |-> "connecting"]
  /\ ConnectedAndListening

====
